---------------------------- MODULE Spec2Model ----------------------------
(***************************************************************************)
(* Calculadora de Renda Fixa (src/app.py): the return/tax engine           *)
(* (obter_aliquota_ir, aliquota_iof, calcular_rendimento,                  *)
(* calcular_investimento), the CDI fetch (buscar_cdi), the input form      *)
(* (render_inputs) and the script's two branches (single investment and    *)
(* comparison).                                                            *)
(*                                                                         *)
(* Python floats are modelled as fixed-point numbers: the integer v stands *)
(* for the real number v / Escala.  Products and quotients truncate toward *)
(* zero at that resolution, and a result beyond Infinito saturates.  Dates *)
(* are day ordinals, strings sequences of one-character strings, and       *)
(* Python's None is the empty tuple while a present value v is <<v>>.      *)
(***************************************************************************)
EXTENDS Integers, Sequences, FiniteSets, TLC

VARIABLES
    arg_dias, ret_aliq,     \* a table lookup: the term in days, the rate found
    pedido, resultado,      \* the engine: a request tuple, its result record
    pc,                     \* where the script (or the harness) stands
    comparar,               \* the "Comparar dois investimentos?" checkbox
    resposta,               \* what the Banco Central API answered
    cdi_auto,               \* buscar_cdi()'s return value
    p, inv,                 \* single branch: render_inputs' tuple, the result
    p1, p2, inv1, inv2,     \* comparison branch: the two tuples, the two results
    melhor                  \* the comparison's winner

vars == <<arg_dias, ret_aliq, pedido, resultado, pc, comparar, resposta, cdi_auto, p, inv, p1, p2, inv1, inv2, melhor>>

(***************************************************************************)
(* Bounds of the model.                                                    *)
(***************************************************************************)
\* Longest term, in days.
MaxPrazo == 800
\* Largest number of days by which an end date precedes its start date.
MaxAtraso == 40
\* date.today(), as a day ordinal: the origin of the model's dates.
Hoje == 0

(***************************************************************************)
(* Fixed-point arithmetic standing for Python's float.                     *)
(***************************************************************************)
Raiz == 10 ^ 3
Escala == Raiz * Raiz
Infinito == 2000 * Escala

Nenhum == << >>

Float(n) == n * Escala

Abs(a) == IF a < 0 THEN -a ELSE a

Sinal(a, b) == IF (a < 0) = (b < 0) THEN 1 ELSE -1

Max(a, b) == IF a >= b THEN a ELSE b

\* a * b of two non-negative floats, saturating at Infinito.
MulAbs(a, b) ==
    LET a1 == a \div Raiz
        a0 == a % Raiz
        b1 == b \div Raiz
        b0 == b % Raiz
    IN  IF a1 > 0 /\ b1 > Infinito \div a1
        THEN Infinito
        ELSE LET r == a1 * b1 + (a1 * b0 + a0 * b1 + (a0 * b0) \div Raiz) \div Raiz
             IN  IF r > Infinito THEN Infinito ELSE r

\* float * float
Mul(a, b) == Sinal(a, b) * MulAbs(Abs(a), Abs(b))

\* The first n decimal digits of r / b, for 0 <= r < b.
RECURSIVE Fracao(_, _, _)
Fracao(r, b, n) ==
    IF n = 0 THEN 0
    ELSE LET t == r * 10
         IN  (t \div b) * (10 ^ (n - 1)) + Fracao(t % b, b, n - 1)

\* a / b of two non-negative floats, b > 0, saturating at Infinito.
DivAbs(a, b) ==
    IF a \div b >= Infinito \div Escala
    THEN Infinito
    ELSE (a \div b) * Escala + Fracao(a % b, b, 6)

\* float / float, b # 0
Div(a, b) == Sinal(a, b) * DivAbs(Abs(a), Abs(b))

\* int / int (Python's true division of two integers), d # 0
Quociente(n, d) == Sinal(n, d) * ((Abs(n) * Escala) \div Abs(d))

\* y ** n for a non-negative float y and an integer n >= 0.
RECURSIVE PotInt(_, _)
PotInt(y, n) ==
    IF n = 0 \/ y = Escala THEN Escala
    ELSE LET h == PotInt(y, n \div 2)
         IN  IF h >= Infinito THEN Infinito
             ELSE IF n % 2 = 1 THEN MulAbs(MulAbs(h, h), y) ELSE MulAbs(h, h)

\* The largest y in lo..hi-1 with y ** n <= x, given lo ** n <= x < hi ** n.
RECURSIVE Bissecao(_, _, _, _)
Bissecao(lo, hi, x, n) ==
    IF hi - lo <= 1 THEN lo
    ELSE IF PotInt(lo + (hi - lo) \div 2, n) <= x
    THEN Bissecao(lo + (hi - lo) \div 2, hi, x, n)
    ELSE Bissecao(lo, lo + (hi - lo) \div 2, x, n)

\* x ** (1/n) for a non-negative float x and an integer n >= 1: the largest
\* y with y ** n <= x.  The search starts from Bernoulli's bounds on the
\* root, 1 + (x-1)/n above 1 and 1 - (1-x)/(n*x) below, when they hold at
\* this resolution, and from the whole range when they do not.
RaizN(x, n) ==
    IF n = 1 \/ x = Escala THEN x
    ELSE IF x > Escala
    THEN LET teto == Escala + (x - Escala) \div n + 2
         IN  IF PotInt(teto, n) > x
             THEN Bissecao(Escala, teto, x, n)
             ELSE Bissecao(teto, x + 1, x, n)
    ELSE LET piso == Max(x, Escala - (Escala - x) \div Max(1, (n * x) \div Escala) - 2)
         IN  IF PotInt(piso, n) <= x
             THEN Bissecao(piso, Escala, x, n)
             ELSE Bissecao(x, piso, x, n)

\* x ** (num/den) for a non-negative float x and integers num, den >= 1
\* (den = 1: an integer exponent); x ** 0 is 1.0 and a negative exponent
\* is the reciprocal.
Potencia(x, num, den) ==
    IF num = 0 THEN Escala
    ELSE IF num < 0 THEN Div(Escala, PotInt(RaizN(x, den), -num))
    ELSE PotInt(RaizN(x, den), num)

(***************************************************************************)
(* The tax tables.                                                         *)
(***************************************************************************)
obter_aliquota_ir_limite_aberto(prazo_dias) ==
    IF prazo_dias < 180 THEN 225000
    ELSE IF prazo_dias <= 360 THEN 200000
    ELSE IF prazo_dias <= 720 THEN 175000
    ELSE 150000

obter_aliquota_ir(prazo_dias) ==
    IF prazo_dias <= 180 THEN 225000
    ELSE IF prazo_dias <= 360 THEN 200000
    ELSE IF prazo_dias <= 720 THEN 175000
    ELSE 150000

aliquota_iof_crescente(dias) ==
    IF dias >= 30 THEN 0
    ELSE Quociente(dias, 30)

aliquota_iof_sem_divisao(dias) ==
    IF dias >= 30 THEN 0
    ELSE Float(30 - dias)

aliquota_iof(dias) ==
    IF dias >= 30 THEN 0
    ELSE Quociente(30 - dias, 30)

(***************************************************************************)
(* The engine.                                                             *)
(***************************************************************************)
calcular_prazo_em_dias(start_date, end_date) == end_date - start_date

calcular_rendimento_um_dia_a_mais(valor_investido, taxa_anual_percent, prazo_dias) ==
    LET taxa_anual == Div(taxa_anual_percent, Float(100))
        taxa_diaria == Potencia(Escala + taxa_anual, 1, 365)
    IN  Mul(valor_investido, Potencia(taxa_diaria, prazo_dias + 1, 1))

calcular_rendimento(valor_investido, taxa_anual_percent, prazo_dias) ==
    LET taxa_anual == Div(taxa_anual_percent, Float(100))
        taxa_diaria == Potencia(Escala + taxa_anual, 1, 365)
    IN  Mul(valor_investido, Potencia(taxa_diaria, prazo_dias, 1))

\* Python's truth value of an optional number: None and zero are false.
Verdadeiro(x) == IF x = Nenhum THEN FALSE ELSE x[1] # 0

\* Python's "x or d" on an optional number.
Ou(x, d) == IF Verdadeiro(x) THEN x[1] ELSE d

TributavelMenosLCI(produto) == produto # "LCI"

\* tributavel = (produto == "CDB")
Tributavel(produto) == produto = "CDB"

TaxaEfetivaComTaxaAnual(tipo, taxa_anual, cdi, percentual_cdi) ==
    IF tipo = "Pre"
    THEN Ou(taxa_anual, 0)
    ELSE IF taxa_anual # Nenhum
    THEN Ou(taxa_anual, 0)
    ELSE Mul(Div(Ou(percentual_cdi, 0), Float(100)), Ou(cdi, 0))

\* taxa_efetiva: the "Taxa efetiva anual" block
TaxaEfetiva(tipo, taxa_anual, cdi, percentual_cdi) ==
    IF tipo = "Pre"
    THEN Ou(taxa_anual, 0)
    ELSE Mul(Div(Ou(percentual_cdi, 0), Float(100)), Ou(cdi, 0))

\* iof: the "IOF (se aplicavel)" block
Iof(tributavel, prazo, rendimento) ==
    IF tributavel /\ prazo < 30
    THEN Mul(rendimento, aliquota_iof(prazo))
    ELSE 0

ImpostoIrSobreRendimento(tributavel, prazo, rendimento, iof) ==
    IF tributavel
    THEN Mul(rendimento, obter_aliquota_ir(prazo))
    ELSE 0

\* imposto_ir: the "IR (se aplicavel)" block
ImpostoIr(tributavel, prazo, rendimento, iof) ==
    IF tributavel
    THEN Mul(rendimento - iof, obter_aliquota_ir(prazo))
    ELSE 0

\* custo_custodia: the "Taxa de custodia (sobre o periodo total)" line
CustoCustodia(valor_investido, taxa_custodia, prazo) ==
    Mul(Mul(valor_investido, Div(taxa_custodia, Float(100))), Quociente(prazo, 365))

\* rent_liq_pct
RentLiqPct(liquido, valor_investido) ==
    IF valor_investido > 0
    THEN Mul(Div(liquido, valor_investido) - Escala, Float(100))
    ELSE 0

\* rent_anual_pct
RentAnualPct(rent_liq_pct, prazo) ==
    IF prazo > 0
    THEN Mul(Potencia(Escala + Div(rent_liq_pct, Float(100)), 365, prazo) - Escala, Float(100))
    ELSE 0

calcular_investimento(data_inicio, data_fim, produto, tipo, valor_investido, taxa_anual, cdi, percentual_cdi, taxa_custodia) ==
    LET prazo == calcular_prazo_em_dias(data_inicio, data_fim)
        tributavel == Tributavel(produto)
        taxa_efetiva == TaxaEfetiva(tipo, taxa_anual, cdi, percentual_cdi)
        bruto == calcular_rendimento(valor_investido, taxa_efetiva, prazo)
        rendimento == bruto - valor_investido
        iof == Iof(tributavel, prazo, rendimento)
        imposto_ir == ImpostoIr(tributavel, prazo, rendimento, iof)
        custo_custodia == CustoCustodia(valor_investido, taxa_custodia, prazo)
        liquido == bruto - imposto_ir - iof - custo_custodia
        rent_liq_pct == RentLiqPct(liquido, valor_investido)
        rent_anual_pct == RentAnualPct(rent_liq_pct, prazo)
    IN  [produto |-> produto,
         tipo |-> tipo,
         taxa |-> taxa_efetiva,
         prazo |-> prazo,
         valor_investido |-> valor_investido,
         valor_bruto |-> bruto,
         iof |-> iof,
         imposto_ir |-> imposto_ir,
         custodia |-> custo_custodia,
         valor_liquido |-> liquido,
         rentabilidade |-> rent_liq_pct,
         rentabilidade_anual |-> rent_anual_pct]

\* calcular_investimento(*t) on a tuple shaped like render_inputs' return value
Calcular(t) ==
    calcular_investimento(t[1], t[2], t[3], t[4], t[5], t[6], t[7], t[8], t[9])

(***************************************************************************)
(* buscar_cdi: the daily CDI of the Banco Central API, annualised.         *)
(***************************************************************************)
Digitos == <<"0", "1", "2", "3", "4", "5", "6", "7", "8", "9">>

EhDigito(c) == \E i \in 1..10 : Digitos[i] = c

ValorDigito(c) == (CHOOSE i \in 1..10 : Digitos[i] = c) - 1

\* str.replace(",", ".")
Replace(str) == [i \in 1..Len(str) |-> IF str[i] = "," THEN "." ELSE str[i]]

\* The digits str[i..j] read as a decimal integer.
RECURSIVE Inteiro(_, _, _)
Inteiro(str, i, j) ==
    IF j < i THEN 0 ELSE 10 * Inteiro(str, i, j - 1) + ValorDigito(str[j])

\* The digits str[i..j] read as a decimal fraction, at the float's resolution.
RECURSIVE Decimal(_, _, _, _)
Decimal(str, i, j, peso) ==
    IF j < i \/ peso = 0 THEN 0
    ELSE ValorDigito(str[i]) * peso + Decimal(str, i + 1, j, peso \div 10)

\* float(str) for a string of digits with at most one point: <<value>>, or
\* Nenhum where float() raises ValueError (no digit, a second point, any
\* other character).
ParseFloat(str) ==
    LET pontos == {i \in 1..Len(str) : str[i] = "."}
        ponto == IF pontos = {} THEN Len(str) + 1 ELSE CHOOSE i \in pontos : TRUE
    IN  IF \/ Cardinality(pontos) > 1
           \/ \E i \in 1..Len(str) : str[i] # "." /\ ~EhDigito(str[i])
           \/ Len(str) - Cardinality(pontos) = 0
        THEN Nenhum
        ELSE <<Inteiro(str, 1, ponto - 1) * Escala + Decimal(str, ponto + 1, Len(str), Escala \div 10)>>

\* A response of requests.get: erro is "timeout" (requests.get raises),
\* "http" (raise_for_status raises), "json" (resp.json() raises) or "" with
\* dados the decoded JSON, a sequence of records.  Every exception is
\* caught and None returned.
buscar_cdi(r) ==
    IF r.erro # "" THEN Nenhum
    ELSE IF Len(r.dados) = 0 THEN Nenhum
    ELSE IF "valor" \notin DOMAIN r.dados[1] THEN Nenhum
    ELSE LET cdi_diario_pct == ParseFloat(Replace(r.dados[1].valor))
         IN  IF cdi_diario_pct = Nenhum THEN Nenhum
             ELSE LET cdi_diario == Div(cdi_diario_pct[1], Float(100))
                      cdi_anual == Potencia(Escala + cdi_diario, 252, 1) - Escala
                  IN  <<Mul(cdi_anual, Float(100))>>

(***************************************************************************)
(* render_inputs: the form.  e holds the widgets' values; the rate widgets *)
(* of the regime not chosen are not rendered and their fields stay None.   *)
(***************************************************************************)
render_inputs_sem_entrada_manual(auto, e) ==
    LET taxa_anual == IF e.tipo = "Pre" THEN <<e.taxa>> ELSE Nenhum
        cdi == IF e.tipo = "Pre" THEN Nenhum ELSE auto
        percentual_cdi == IF e.tipo = "Pre" THEN Nenhum ELSE <<e.pcdi>>
    IN  <<e.data_inicio, e.data_fim, e.produto, e.tipo, e.valor_investido, taxa_anual, cdi, percentual_cdi, e.taxa_custodia>>

render_inputs(auto, e) ==
    LET taxa_anual == IF e.tipo = "Pre" THEN <<e.taxa>> ELSE Nenhum
        cdi == IF e.tipo = "Pre" THEN Nenhum
               ELSE IF Verdadeiro(auto) THEN auto ELSE <<e.cdi>>
        percentual_cdi == IF e.tipo = "Pre" THEN Nenhum ELSE <<e.pcdi>>
    IN  <<e.data_inicio, e.data_fim, e.produto, e.tipo, e.valor_investido, taxa_anual, cdi, percentual_cdi, e.taxa_custodia>>

MelhorComEmpate(i1, i2) ==
    IF i1.rentabilidade_anual >= i2.rentabilidade_anual
    THEN "Investimento 1" ELSE "Investimento 2"

\* melhor = "Investimento 1" if inv1[...] > inv2[...] else "Investimento 2"
Melhor(i1, i2) ==
    IF i1.rentabilidade_anual > i2.rentabilidade_anual
    THEN "Investimento 1" ELSE "Investimento 2"

(***************************************************************************)
(* Inputs.                                                                 *)
(***************************************************************************)
Produtos == {"CDB", "LCI", "LCA"}

Tipos == {"Pre", "Pos"}

\* Requests of the engine: terms around every bracket boundary, negative
\* terms, every product and regime, rate fields present or absent whatever
\* the regime, a zero principal, with and without custody fee.
DatasInicioMotor == {Hoje, Hoje + 1}

DatasFimMotor == {Hoje + d : d \in {-MaxAtraso, 0, 1, 30, 31, 181, 361, 366, 721, MaxPrazo}}

ValoresMotor == {0, Float(100), Float(200)}

TaxasMotor == {Nenhum, <<Float(10)>>, <<0 - Float(50)>>}

CdisMotor == {Nenhum, <<Float(13)>>}

PercentuaisMotor == {Nenhum, <<Float(110)>>}

CustodiasMotor == {0, Float(1)}

Pedidos == DatasInicioMotor \X DatasFimMotor \X Produtos \X Tipos \X ValoresMotor \X TaxasMotor \X CdisMotor \X PercentuaisMotor \X CustodiasMotor

\* What the Banco Central API may answer.
Falhas == {[erro |-> "timeout", dados |-> << >>], [erro |-> "http", dados |-> << >>], [erro |-> "json", dados |-> << >>]}

Malformados == {[erro |-> "", dados |-> << >>], [erro |-> "", dados |-> <<[data |-> <<"0", "1">>]>>], [erro |-> "", dados |-> <<[valor |-> <<"x">>]>>], [erro |-> "", dados |-> <<[valor |-> << >>]>>], [erro |-> "", dados |-> <<[valor |-> <<"0", ",", "0", ",", "5">>]>>]}

BemFormados == {[erro |-> "", dados |-> <<[valor |-> <<"0", ",", "0", "5">>]>>], [erro |-> "", dados |-> <<[valor |-> <<"0", ".", "0", "4">>]>>], [erro |-> "", dados |-> <<[valor |-> <<"0", ",", "0", "0">>]>>]}

Respostas == Falhas \cup Malformados \cup BemFormados

\* What the user may enter in the form (valor_investido >= 100 and
\* taxa_custodia >= 0 are the widgets' min_value).
EntradasPre == [data_inicio : {Hoje}, data_fim : {Hoje, Hoje + 20, Hoje + 365}, produto : Produtos, tipo : {"Pre"}, valor_investido : {Float(1000) \div 10}, taxa_custodia : {0}, taxa : {Float(10), Float(12)}, cdi : {13650000}, pcdi : {Float(100)}]

EntradasPos == [data_inicio : {Hoje}, data_fim : {Hoje, Hoje + 20, Hoje + 365}, produto : Produtos, tipo : {"Pos"}, valor_investido : {Float(1000) \div 10}, taxa_custodia : {0}, taxa : {Float(10)}, cdi : {13650000}, pcdi : {Float(100)}]

Entradas == EntradasPre \cup EntradasPos

(***************************************************************************)
(* SpecTabela: the two tax tables, looked up for every term.               *)
(***************************************************************************)
Ocioso == /\ pedido = Nenhum /\ resultado = Nenhum /\ comparar = FALSE
          /\ resposta = Nenhum /\ cdi_auto = Nenhum /\ p = Nenhum /\ inv = Nenhum
          /\ p1 = Nenhum /\ p2 = Nenhum /\ inv1 = Nenhum /\ inv2 = Nenhum /\ melhor = ""

InitTabela ==
    /\ pc = "tabela"
    /\ arg_dias \in (0 - MaxAtraso)..MaxPrazo
    /\ ret_aliq = Nenhum
    /\ Ocioso

ConsultaIr ==
    /\ pc = "tabela"
    /\ ret_aliq = Nenhum
    /\ ret_aliq' = <<"ir", obter_aliquota_ir(arg_dias)>>
    /\ UNCHANGED <<arg_dias, pedido, resultado, pc, comparar, resposta, cdi_auto, p, inv, p1, p2, inv1, inv2, melhor>>

ConsultaIof ==
    /\ pc = "tabela"
    /\ ret_aliq = Nenhum
    /\ ret_aliq' = <<"iof", aliquota_iof(arg_dias)>>
    /\ UNCHANGED <<arg_dias, pedido, resultado, pc, comparar, resposta, cdi_auto, p, inv, p1, p2, inv1, inv2, melhor>>

NextTabela == ConsultaIr \/ ConsultaIof

SpecTabela == InitTabela /\ [][NextTabela]_vars

(***************************************************************************)
(* SpecMotor: calcular_investimento applied to every request.              *)
(***************************************************************************)
InitMotor ==
    /\ pc = "motor"
    /\ pedido \in Pedidos
    /\ resultado = Nenhum
    /\ arg_dias = 0 /\ ret_aliq = Nenhum /\ comparar = FALSE
    /\ resposta = Nenhum /\ cdi_auto = Nenhum /\ p = Nenhum /\ inv = Nenhum
    /\ p1 = Nenhum /\ p2 = Nenhum /\ inv1 = Nenhum /\ inv2 = Nenhum /\ melhor = ""

Avaliar ==
    /\ pc = "motor"
    /\ resultado = Nenhum
    /\ resultado' = Calcular(pedido)
    /\ UNCHANGED <<arg_dias, ret_aliq, pedido, pc, comparar, resposta, cdi_auto, p, inv, p1, p2, inv1, inv2, melhor>>

NextMotor == Avaliar

SpecMotor == InitMotor /\ [][NextMotor]_vars

(***************************************************************************)
(* Spec: one run of the script, top to bottom.                             *)
(***************************************************************************)
Init ==
    /\ pc = "buscar_cdi"
    /\ comparar \in BOOLEAN
    /\ resposta = Nenhum /\ cdi_auto = Nenhum
    /\ p = Nenhum /\ inv = Nenhum
    /\ p1 = Nenhum /\ p2 = Nenhum /\ inv1 = Nenhum /\ inv2 = Nenhum /\ melhor = ""
    /\ arg_dias = 0 /\ ret_aliq = Nenhum /\ pedido = Nenhum /\ resultado = Nenhum

\* cdi_auto = buscar_cdi()
BuscarCdi ==
    /\ pc = "buscar_cdi"
    /\ \E r \in Respostas :
        /\ resposta' = r
        /\ cdi_auto' = buscar_cdi(r)
    /\ pc' = IF comparar THEN "inputs1" ELSE "inputs"
    /\ UNCHANGED <<arg_dias, ret_aliq, pedido, resultado, comparar, p, inv, p1, p2, inv1, inv2, melhor>>

\* p1 = render_inputs("Investimento 1")
RenderInputs1 ==
    /\ pc = "inputs1"
    /\ \E e \in Entradas : p1' = render_inputs(cdi_auto, e)
    /\ pc' = "inputs2"
    /\ UNCHANGED <<arg_dias, ret_aliq, pedido, resultado, comparar, resposta, cdi_auto, p, inv, p2, inv1, inv2, melhor>>

\* p2 = render_inputs("Investimento 2")
RenderInputs2 ==
    /\ pc = "inputs2"
    /\ \E e \in Entradas : p2' = render_inputs(cdi_auto, e)
    /\ pc' = "comparar"
    /\ UNCHANGED <<arg_dias, ret_aliq, pedido, resultado, comparar, resposta, cdi_auto, p, inv, p1, inv1, inv2, melhor>>

\* inv1, inv2 = calcular_investimento(*p1), calcular_investimento(*p2); melhor
Comparar ==
    /\ pc = "comparar"
    /\ inv1' = Calcular(p1)
    /\ inv2' = Calcular(p2)
    /\ melhor' = Melhor(inv1', inv2')
    /\ pc' = "fim"
    /\ UNCHANGED <<arg_dias, ret_aliq, pedido, resultado, comparar, resposta, cdi_auto, p, inv, p1, p2>>

\* p = render_inputs("Investimento")
RenderInputs ==
    /\ pc = "inputs"
    /\ \E e \in Entradas : p' = render_inputs(cdi_auto, e)
    /\ pc' = "calcular"
    /\ UNCHANGED <<arg_dias, ret_aliq, pedido, resultado, comparar, resposta, cdi_auto, inv, p1, p2, inv1, inv2, melhor>>

\* inv = calcular_investimento(*p)
CalcularUnico ==
    /\ pc = "calcular"
    /\ inv' = Calcular(p)
    /\ pc' = "fim"
    /\ UNCHANGED <<arg_dias, ret_aliq, pedido, resultado, comparar, resposta, cdi_auto, p, p1, p2, inv1, inv2, melhor>>

Next == BuscarCdi \/ RenderInputs1 \/ RenderInputs2 \/ Comparar \/ RenderInputs \/ CalcularUnico

Spec == Init /\ [][Next]_vars

(***************************************************************************)
(* Properties.                                                             *)
(***************************************************************************)

\* C1 (SpecTabela): obter_aliquota_ir returns 22.5% for a term of at most 180
\* days, 20.0% for 181..360, 17.5% for 361..720 and 15.0% beyond 720: the
\* upper bound of each bracket is inclusive.
C1_FaixasIr ==
    (ret_aliq # Nenhum /\ ret_aliq[1] = "ir") =>
        /\ arg_dias <= 180 => ret_aliq[2] * 1000 = 225 * Escala
        /\ (181 <= arg_dias /\ arg_dias <= 360) => ret_aliq[2] * 1000 = 200 * Escala
        /\ (361 <= arg_dias /\ arg_dias <= 720) => ret_aliq[2] * 1000 = 175 * Escala
        /\ arg_dias > 720 => ret_aliq[2] * 1000 = 150 * Escala

\* The looked-up term 180, the last day of the first bracket, at 22.5%.
C1_Limite180 == arg_dias = 180 /\ ret_aliq = <<"ir", 225000>>

\* C2 (SpecTabela): aliquota_iof returns (30 - term)/30 (at the float's
\* resolution) for a term below 30 days and 0 from 30 days on; 1.0 at term 0.
C2_TabelaIof ==
    (ret_aliq # Nenhum /\ ret_aliq[1] = "iof") =>
        /\ arg_dias >= 30 => ret_aliq[2] = 0
        /\ arg_dias < 30 =>
            /\ ret_aliq[2] * 30 <= (30 - arg_dias) * Escala
            /\ (30 - arg_dias) * Escala < (ret_aliq[2] + 1) * 30
        /\ arg_dias = 0 => ret_aliq[2] = Escala

\* The looked-up term 29, at 1/30.
C2_Dia29 == arg_dias = 29 /\ ret_aliq = <<"iof", Escala \div 30>>

\* C3 (SpecMotor): a request for LCI or LCA yields iof = 0 and imposto_ir = 0
\* whatever the term, regime, rates, principal and custody fee; only CDB can
\* yield a non-zero IOF or IR.
C3_Isencao ==
    resultado # Nenhum =>
        /\ pedido[3] \in {"LCI", "LCA"} => (resultado.iof = 0 /\ resultado.imposto_ir = 0)
        /\ (resultado.iof # 0 \/ resultado.imposto_ir # 0) => pedido[3] = "CDB"

\* An LCA held for less than 30 days with a gain, and no tax.
C3_LcaComGanho ==
    /\ resultado # Nenhum
    /\ pedido[3] = "LCA"
    /\ resultado.prazo \in 1..29
    /\ resultado.valor_bruto > resultado.valor_investido
    /\ resultado.iof = 0 /\ resultado.imposto_ir = 0

\* C4 (SpecMotor): for CDB, with rendimento = gross - principal, IOF is
\* rendimento x aliquota_iof(term) below 30 days and 0 from 30 days on, and IR
\* is (rendimento - IOF) x obter_aliquota_ir(term): IR is charged on the gain
\* after IOF.
C4_IofDepoisIr ==
    (resultado # Nenhum /\ pedido[3] = "CDB") =>
        LET rendimento == resultado.valor_bruto - resultado.valor_investido
        IN  /\ resultado.prazo < 30 => resultado.iof = Mul(rendimento, aliquota_iof(resultado.prazo))
            /\ resultado.prazo >= 30 => resultado.iof = 0
            /\ resultado.imposto_ir = Mul(rendimento - resultado.iof, obter_aliquota_ir(resultado.prazo))

\* A CDB held for 1..29 days with a gain: both taxes are charged, and the IR
\* is less than the bracket rate applied to the whole gain.
C4_CdbCurto ==
    /\ resultado # Nenhum
    /\ pedido[3] = "CDB"
    /\ resultado.prazo \in 1..29
    /\ resultado.iof > 0
    /\ resultado.imposto_ir > 0
    /\ resultado.imposto_ir < Mul(resultado.valor_bruto - resultado.valor_investido, obter_aliquota_ir(resultado.prazo))

\* C5 (SpecMotor): with a principal P > 0 and start date = end date, the
\* result has valor_bruto = valor_liquido = P, rentabilidade = 0 and
\* rentabilidade_anual = 0, for any product, regime, rates and custody fee.
C5_PrazoZero ==
    (resultado # Nenhum /\ pedido[5] > 0 /\ pedido[1] = pedido[2]) =>
        /\ resultado.prazo = 0
        /\ resultado.valor_bruto = pedido[5]
        /\ resultado.valor_liquido = pedido[5]
        /\ resultado.rentabilidade = 0
        /\ resultado.rentabilidade_anual = 0

\* A CDB of term 0 at a non-zero rate and with a custody fee.
C5_CdbNoMesmoDia ==
    /\ resultado # Nenhum
    /\ pedido[1] = pedido[2]
    /\ pedido[3] = "CDB"
    /\ pedido[5] = Float(200)
    /\ pedido[9] > 0
    /\ resultado.taxa > 0
    /\ resultado.valor_liquido = Float(200)

\* The request with the rate fields of the regime not chosen left out.
SemOutroRegime(t) ==
    IF t[4] = "Pre"
    THEN [t EXCEPT ![7] = Nenhum, ![8] = Nenhum]
    ELSE [t EXCEPT ![6] = Nenhum]

\* C8 (SpecMotor): the rate reported in taxa and used for compounding is the
\* nominal annual rate under "Pre" and (percentual_cdi / 100) x cdi under
\* "Pos"; the rate fields of the other regime do not influence the result.
C8_TaxaEfetiva ==
    resultado # Nenhum =>
        /\ (pedido[4] = "Pre" /\ pedido[6] # Nenhum) => resultado.taxa = pedido[6][1]
        /\ (pedido[4] = "Pos" /\ pedido[7] # Nenhum /\ pedido[8] # Nenhum) =>
                resultado.taxa = Mul(Div(pedido[8][1], Float(100)), pedido[7][1])
        /\ resultado.valor_bruto = calcular_rendimento(pedido[5], resultado.taxa, resultado.prazo)
        /\ resultado = Calcular(SemOutroRegime(pedido))

\* An indexed request that also carries a nominal rate: 110% of 13% is used.
C8_PosComTaxaAnual ==
    /\ resultado # Nenhum
    /\ pedido[4] = "Pos"
    /\ pedido[6] = <<Float(10)>>
    /\ pedido[7] = <<Float(13)>>
    /\ pedido[8] = <<Float(110)>>
    /\ resultado.taxa = 14300000
    /\ resultado.valor_bruto > resultado.valor_investido

\* C9 (SpecMotor): for CDB with term >= 0 and gross >= principal, IOF >= 0,
\* IR >= 0 and IOF + IR <= gross - principal; with no custody fee the net
\* value is not below the principal.
C9_ImpostosNoGanho ==
    (resultado # Nenhum /\ pedido[3] = "CDB" /\ resultado.prazo >= 0
        /\ resultado.valor_bruto >= resultado.valor_investido) =>
        /\ resultado.iof >= 0
        /\ resultado.imposto_ir >= 0
        /\ resultado.iof + resultado.imposto_ir <= resultado.valor_bruto - resultado.valor_investido
        /\ pedido[9] = 0 => resultado.valor_liquido >= resultado.valor_investido

\* A CDB held for one day with a gain and no custody fee: IOF takes 29/30 of
\* the gain, IR is charged on the rest, and the investor keeps a part of it.
C9_CdbUmDia ==
    /\ resultado # Nenhum
    /\ pedido[3] = "CDB"
    /\ pedido[9] = 0
    /\ resultado.prazo = 1
    /\ resultado.valor_bruto > resultado.valor_investido
    /\ resultado.iof > 0
    /\ resultado.imposto_ir > 0
    /\ resultado.iof + resultado.imposto_ir < resultado.valor_bruto - resultado.valor_investido
    /\ resultado.valor_liquido > resultado.valor_investido

\* The IOF rate calcular_investimento applies to a result's gain.
AliquotaIofAplicada(r) ==
    IF r.produto = "CDB" /\ r.prazo < 30 THEN aliquota_iof(r.prazo) ELSE 0

\* C10 (SpecMotor): for every term the engine accepts, negative terms
\* included, the IOF rate applied lies between 0 and 1 inclusive.
C10_AliquotaIofEntre0e1 ==
    resultado # Nenhum =>
        /\ 0 <= AliquotaIofAplicada(resultado)
        /\ AliquotaIofAplicada(resultado) <= Escala

\* C6 (Spec): the comparison names Investimento 1 exactly when its annualised
\* net yield is strictly greater than Investimento 2's, and Investimento 2 in
\* every other case, ties included.
C6_Vencedor ==
    (pc = "fim" /\ comparar) =>
        /\ melhor \in {"Investimento 1", "Investimento 2"}
        /\ melhor = "Investimento 1" <=> inv1.rentabilidade_anual > inv2.rentabilidade_anual
        /\ inv1.rentabilidade_anual = inv2.rentabilidade_anual => melhor = "Investimento 2"

\* A tie at a non-zero yield, won by Investimento 2.
C6_Empate ==
    /\ pc = "fim" /\ comparar
    /\ inv1.rentabilidade_anual = inv2.rentabilidade_anual
    /\ inv1.rentabilidade_anual > 0
    /\ melhor = "Investimento 2"

\* C7 (Spec): when the fetch fails (timeout, HTTP error, malformed payload)
\* buscar_cdi returns None, and the tuple handed to calcular_investimento for
\* a "Pos" request then carries the rate the user entered, never None.
C7_CdiNuncaAusente ==
    /\ (pc # "buscar_cdi" /\ resposta \in Falhas \cup Malformados) => cdi_auto = Nenhum
    /\ \A t \in {p, p1, p2} :
        (t # Nenhum /\ t[4] = "Pos") =>
            /\ t[7] # Nenhum
            /\ cdi_auto = Nenhum => t[7] \in {<<e.cdi>> : e \in Entradas}

\* A run whose fetch timed out and whose indexed request was evaluated at
\* the rate entered by hand.
C7_TimeoutComPos ==
    /\ pc = "fim" /\ ~comparar
    /\ resposta \in Falhas
    /\ p[4] = "Pos"
    /\ p[7] = <<13650000>>
    /\ inv.taxa = 13650000

=============================================================================
